---- MODULE Spec2Model ----
(***************************************************************************)
(* Model of scripts/3-report/gcs_reports.py: the Google Custom Search      *)
(* report script.  main() pulls the repository, parses the command line,   *)
(* loads the quarter's CSV, runs the country, license type and language    *)
(* reports and then commits and pushes; the __main__ block turns the way   *)
(* main() ends into the process exit code.                                 *)
(*                                                                         *)
(* Text is a sequence of tokens, so that str.strip() and the substring     *)
(* test are computed, not assumed.  In a column header a token is one      *)
(* whitespace character or a run of other characters; a license type       *)
(* label is spelled character by character.                                *)
(***************************************************************************)
EXTENDS Integers, Sequences, FiniteSets, TLC

\* ------------------------------------------------------------- bounds
MaxRows == 2
MaxVal == 1
MaxPad == 1
MaxCols == 3
MaxRuns == 2

\* ------------------------------------------------------------- state
VARIABLES
    files,        \* the paths that exist under PATHS["data"]
    fetched,      \* the content of the gcs_fetched.csv files, as read_csv reads it
    readme,       \* the entries shared.update_readme has registered
    run,          \* the number of this run of the script
    prev,         \* the quarters an earlier run wrote all three reports for
    pc,           \* the call main() is about to make, or "exit"
    argv,         \* the command line, as given
    args,         \* the namespace parse_arguments returned
    data,         \* the DataFrame main() holds
    series,       \* country_data, license_data, language_data of this run
    xticklabels,  \* the labels set on the license type chart
    trace,        \* the calls this run has made, in order
    raised,       \* the exception main() ended with
    exit_code     \* the process exit code, -1 while the script runs

vars == <<files, fetched, readme, run, prev, pc, argv, args, data, series,
          xticklabels, trace, raised, exit_code>>

\* ------------------------------------------------------------- text
\* The characters str.strip() removes (space and tab are the ones used).
Whitespace == {" ", "\t"}

RECURSIVE lstrip(_)
lstrip(s) ==
    IF s # <<>> /\ Head(s) \in Whitespace THEN lstrip(Tail(s)) ELSE s

RECURSIVE rstrip(_)
rstrip(s) ==
    IF s # <<>> /\ s[Len(s)] \in Whitespace
    THEN rstrip(SubSeq(s, 1, Len(s) - 1))
    ELSE s

\* col.strip() / data.columns.str.strip(): leading and trailing whitespace
\* goes, inner whitespace stays.
strip(s) == rstrip(lstrip(s))

\* `pattern in label`: pattern occurs as a contiguous run of label.
Contains(label, pattern) ==
    \E i \in 1..(Len(label) - Len(pattern) + 1) :
        SubSeq(label, i, i + Len(pattern) - 1) = pattern

\* The names the script looks up.
UnitedStates == <<"United", " ", "States">>
Japan == <<"Japan">>
English == <<"English">>
Indonesian == <<"Indonesian">>
LicenseType == <<"LICENSE", " ", "TYPE">>
By25 == <<"b", "y", "/", "2", ".", "5">>
CCBy25 == <<"C", "C", " ", "B", "Y", " ", "2", ".", "5">>

\* ------------------------------------------------------------- data frames
\* A DataFrame is [columns |-> sequence of headers, rows |-> sequence of
\* rows], a row being a sequence of cells, one per column.  pd.DataFrame()
\* has neither columns nor rows.
EmptyFrame == [columns |-> <<>>, rows |-> <<>>]

\* DataFrame.empty: any axis has length 0.
IsEmpty(df) == Len(df.columns) = 0 \/ Len(df.rows) = 0

\* [col.strip() for col in data.columns.tolist()]
StrippedColumns(df) == [i \in 1..Len(df.columns) |-> strip(df.columns[i])]

\* data.columns = data.columns.str.strip()
StripColumns(df) == [df EXCEPT !.columns = StrippedColumns(df)]

\* A plausible slip: a lookup that does not raise (str.find style, -1 for a
\* missing value, which then addresses the last column).
IndexOrLast(columns, name) ==
    IF \E i \in 1..Len(columns) : columns[i] = name
    THEN CHOOSE i \in 1..Len(columns) :
             /\ columns[i] = name
             /\ \A j \in 1..(i - 1) : columns[j] # name
    ELSE Len(columns)

\* list.index(name), 1-based; 0 stands for the ValueError of a missing value.
Index(columns, name) ==
    IF \E i \in 1..Len(columns) : columns[i] = name
    THEN CHOOSE i \in 1..Len(columns) :
             /\ columns[i] = name
             /\ \A j \in 1..(i - 1) : columns[j] # name
    ELSE 0

\* columns[start_index:end_index] with start_index = index(first) and
\* end_index = index(last) + 1 (0-based in the code): the 1-based positions
\* Index(first) .. Index(last), empty when last comes before first.
Span(columns, first, last) ==
    SubSeq(columns, Index(columns, first), Index(columns, last))

RECURSIVE SumSeq(_)
SumSeq(s) == IF s = <<>> THEN 0 ELSE Head(s) + SumSeq(Tail(s))

\* Sum of column j over all rows.
ColumnSum(df, j) == SumSeq([r \in 1..Len(df.rows) |-> df.rows[r][j]])

\* The positions of the columns labelled `label`, left to right.
RECURSIVE Positions(_, _, _)
Positions(columns, label, from) ==
    IF from > Len(columns) THEN <<>>
    ELSE (IF columns[from] = label THEN <<from>> ELSE <<>>)
         \o Positions(columns, label, from + 1)

\* data[labels]: selection by label; each label in turn brings every column
\* that carries it.
RECURSIVE SelectByLabel(_, _)
SelectByLabel(columns, labels) ==
    IF labels = <<>> THEN <<>>
    ELSE Positions(columns, Head(labels), 1)
         \o SelectByLabel(columns, Tail(labels))

\* data[span].sum() after the headers are stripped: a Series, here the
\* sequence of its (name, value) entries.
SpanAggregate(df, first, last) ==
    LET cols == StrippedColumns(df)
        sel  == SelectByLabel(cols, Span(cols, first, last))
    IN  [k \in 1..Len(sel) |->
            [name |-> cols[sel[k]], value |-> ColumnSum(df, sel[k])]]

\* A plausible slip: the first column after the key is dropped as well.
LicenseDataDropsTwo(df) ==
    LET key == Index(df.columns, LicenseType)
        rest == SelectSeq([j \in 1..Len(df.columns) |-> j],
                          LAMBDA j : j # key /\ j # key + 1)
    IN  [r \in 1..Len(df.rows) |->
            [name  |-> df.rows[r][key],
             value |-> SumSeq([k \in 1..Len(rest) |-> df.rows[r][rest[k]]])]]

\* data.set_index("LICENSE TYPE").sum(axis=1): one entry per row, named by
\* the row's LICENSE TYPE cell, its value the sum of the row's other cells.
LicenseData(df) ==
    LET key == Index(df.columns, LicenseType)
        rest == SelectSeq([j \in 1..Len(df.columns) |-> j],
                          LAMBDA j : j # key)
    IN  [r \in 1..Len(df.rows) |->
            [name  |-> df.rows[r][key],
             value |-> SumSeq([k \in 1..Len(rest) |-> df.rows[r][rest[k]]])]]

\* A plausible slip: the label must equal the pattern to be rewritten.
TickLabelExact(label) == IF label = By25 THEN CCBy25 ELSE label

\* "CC BY 2.5" if "by/2.5" in label else label
TickLabel(label) == IF Contains(label, By25) THEN CCBy25 ELSE label

\* The list handed to ax.set_xticklabels.
TickLabels(ser) == [k \in 1..Len(ser) |-> TickLabel(ser[k].name)]

\* ------------------------------------------------------------- paths
Quarters == {"2024Q1", "2024Q2"}

\* os.path.join(PATHS["data"], quarter, "1-fetch", "gcs_fetched.csv")
InputPath(quarter) == <<quarter, "1-fetch", "gcs_fetched.csv">>

\* A plausible slip: a name already taken is not reused, the new image is
\* saved beside the old one.
ImagePathFresh(quarter, name) ==
    IF <<quarter, "3-report", name>> \in files
    THEN <<quarter, "3-report", name, "1">>
    ELSE <<quarter, "3-report", name>>

\* os.path.join(PATHS["data"], quarter, "3-report", name)
ImagePath(quarter, name) == <<quarter, "3-report", name>>

CountryPng == "gcs_country_report.png"
LicenseTypePng == "gcs_licensetype_report.png"
LanguagePng == "gcs_language_report.png"

\* ------------------------------------------------------------- exceptions
NoException == [type |-> "none", code |-> 0]
QuantifyingException(c) == [type |-> "QuantifyingException", code |-> c]
SystemExit(c) == [type |-> "SystemExit", code |-> c]
KeyboardInterrupt == [type |-> "KeyboardInterrupt", code |-> 0]
ValueError == [type |-> "ValueError", code |-> 0]
KeyError == [type |-> "KeyError", code |-> 0]

\* The exit codes a collaborator's QuantifyingException may carry.
QuantifyingCodes == {0, 1, 3}
\* argparse leaves with 0 (--help) or 2 (usage error).
ArgparseCodes == {0, 2}

\* A plausible slip: the interrupt falls through to the catch-all.
ExitCodeNoInterrupt(e) ==
    CASE e.type = "none" -> 0
      [] e.type = "QuantifyingException" -> e.code
      [] e.type = "SystemExit" -> e.code
      [] OTHER -> 1

\* The __main__ block: the exit code for the way main() ended.
ExitCode(e) ==
    CASE e.type = "none" -> 0
      [] e.type = "QuantifyingException" -> e.code
      [] e.type = "SystemExit" -> e.code
      [] e.type = "KeyboardInterrupt" -> 130
      [] OTHER -> 1

\* ------------------------------------------------------------- inputs
Tool == <<"TOOL">>
Canada == <<"Canada">>
Spanish == <<"Spanish">>

\* License type labels as the CSV spells them.
LabelList == <<
    <<"b", "y", "/", "2", ".", "5">>,
    <<"/", "b", "y", "/", "2", ".", "5", "/">>,
    <<"b", "y", "/", "2", ".", "0">>,
    <<"b", "y", "-", "s", "a", "/", "2", ".", "5">>,
    <<"y", "/", "2", ".", "5">> >>
LabelPool == {LabelList[i] : i \in 1..Len(LabelList)}
LabelAt(r) == LabelList[((r - 1) % Len(LabelList)) + 1]

Spaces(n) == [i \in 1..n |-> " "]
Pad(h, lead, trail) == Spaces(lead) \o h \o Spaces(trail)
PadAll(hs, lead, trail) == [i \in 1..Len(hs) |-> Pad(hs[i], lead, trail)]

\* A row of width w: the label, then the counts seed + r * j.
Row(label, seed, r, w) ==
    <<label>> \o [j \in 1..(w - 1) |-> seed + r * j]

\* The sequences over S of length 0..n without repetition.
RECURSIVE InjSeqs(_, _)
InjSeqs(S, n) ==
    IF n = 0 THEN {<<>>}
    ELSE LET shorter == InjSeqs(S, n - 1)
         IN  shorter \cup
             {Append(q, x) : <<q, x>> \in
                 {<<q, x>> \in shorter \X S :
                     /\ Len(q) = n - 1
                     /\ \A i \in 1..Len(q) : q[i] # x}}

\* The header rows the runs of main() are given.
Layouts == {
    <<LicenseType, UnitedStates, Canada, Japan, English, Spanish, Indonesian>>,
    <<LicenseType, UnitedStates, Japan, English, Indonesian>>,
    <<LicenseType, UnitedStates, Canada, English, Indonesian>>,
    <<LicenseType, Japan, English, Indonesian>>,
    <<LicenseType, UnitedStates, Japan, Indonesian>>,
    <<LicenseType, UnitedStates, Japan, English>>,
    <<Tool, UnitedStates, Japan, English, Indonesian>>,
    <<LicenseType, Japan, UnitedStates, English, Indonesian>>,
    <<LicenseType, UnitedStates, Japan, <<"Japan", "\t">>, English, Indonesian>> }

\* The fixture of the end-to-end test: rows [10, 20] and [30, 5].
ExampleFrame ==
    [columns |-> <<LicenseType, <<" ", "United", " ", "States">>,
                   <<"Japan", " ">>, English, Indonesian>>,
     rows |-> << <<LabelList[1], 10, 20, 1, 2>>,
                 <<LabelList[3], 30, 5, 3, 4>> >>]

\* The frames the runs of main() load: each layout, padded, with no row or
\* with MaxRows rows.
FixtureFrames ==
    {ExampleFrame} \cup
    { [columns |-> PadAll(hs, lead, trail),
       rows |-> [r \in 1..n |-> Row(LabelAt(r), MaxVal, r, Len(hs))]] :
         hs \in Layouts, lead \in 0..MaxPad, trail \in 0..MaxPad,
         n \in {0, MaxRows} }

\* The numeric headers the aggregation is tried on.
HeaderPool == {
    UnitedStates, <<"United", " ", "States", " ">>,
    Japan, <<" ", "Japan">>,
    Canada,
    English, <<"\t", "English">>,
    Indonesian }

\* Frames with any arrangement of up to MaxCols numeric columns.
ArrangedFrames ==
    { [columns |-> <<LicenseType>> \o hs,
       rows |-> [r \in 1..n |-> Row(LabelAt(r), seed, r, Len(hs) + 1)]] :
         hs \in InjSeqs(HeaderPool, MaxCols), n \in 1..MaxRows,
         seed \in 0..MaxVal }

\* Frames with any license type labels, key column padded or missing.
LabelledFrames ==
    { [columns |-> <<Pad(key, lead, trail), UnitedStates, Japan, English,
                     Indonesian>>,
       rows |-> [r \in 1..Len(labels) |-> Row(labels[r], 0, r, 5)]] :
         key \in {LicenseType, Tool}, lead \in 0..MaxPad, trail \in 0..MaxPad,
         labels \in UNION {[1..n -> LabelPool] : n \in 1..MaxRows} }

\* ------------------------------------------------------------- main()
NoArgs == [quarter |-> "", skip_commit |-> FALSE, skip_push |-> FALSE,
           show_plots |-> FALSE]
NoSeries == [country |-> <<>>, license |-> <<>>, language |-> <<>>]

\* The entry shared.update_readme registers for an image.
Entry(quarter, section, name) ==
    [quarter |-> quarter, section |-> section,
     image_path |-> ImagePath(quarter, name)]

HasDuplicates(s) == \E i, j \in 1..Len(s) : i # j /\ s[i] = s[j]

\* A plausible slip: the language report is called before the license type
\* report.
NextCallLanguageFirst(call) ==
    CASE call = "fetch_and_merge" -> "parse_arguments"
      [] call = "parse_arguments" -> "load_data"
      [] call = "load_data" -> "visualize_by_country"
      [] call = "visualize_by_country" -> "country_update_readme"
      [] call = "country_update_readme" -> "visualize_by_language"
      [] call = "visualize_by_language" -> "language_update_readme"
      [] call = "language_update_readme" -> "visualize_by_license_type"
      [] call = "visualize_by_license_type" -> "license_type_update_readme"
      [] call = "license_type_update_readme" -> "add_and_commit"
      [] call = "add_and_commit" -> "push_changes"

\* A plausible slip: the language report is not called.
NextCallNoLanguage(call) ==
    CASE call = "fetch_and_merge" -> "parse_arguments"
      [] call = "parse_arguments" -> "load_data"
      [] call = "load_data" -> "visualize_by_country"
      [] call = "visualize_by_country" -> "country_update_readme"
      [] call = "country_update_readme" -> "visualize_by_license_type"
      [] call = "visualize_by_license_type" -> "license_type_update_readme"
      [] call = "license_type_update_readme" -> "add_and_commit"
      [] call = "visualize_by_language" -> "language_update_readme"
      [] call = "language_update_readme" -> "add_and_commit"
      [] call = "add_and_commit" -> "push_changes"

\* The order of the calls main() makes (within a report function: savefig,
\* then update_readme).
NextCall(call) ==
    CASE call = "fetch_and_merge" -> "parse_arguments"
      [] call = "parse_arguments" -> "load_data"
      [] call = "load_data" -> "visualize_by_country"
      [] call = "visualize_by_country" -> "country_update_readme"
      [] call = "country_update_readme" -> "visualize_by_license_type"
      [] call = "visualize_by_license_type" -> "license_type_update_readme"
      [] call = "license_type_update_readme" -> "visualize_by_language"
      [] call = "visualize_by_language" -> "language_update_readme"
      [] call = "language_update_readme" -> "add_and_commit"
      [] call = "add_and_commit" -> "push_changes"

\* main() ends with exception e: the __main__ block exits the process.
Raise(e) ==
    /\ pc' = "exit"
    /\ raised' = e
    /\ exit_code' = ExitCode(e)

\* main() goes on to its next call.
Continue ==
    /\ pc' = NextCall(pc)
    /\ UNCHANGED <<raised, exit_code>>

\* main() returns.
Return ==
    /\ pc' = "exit"
    /\ raised' = NoException
    /\ exit_code' = ExitCode(NoException)

\* shared.fetch_and_merge(PATHS["repo"])
FetchAndMerge ==
    /\ pc = "fetch_and_merge"
    /\ trace' = Append(trace, "fetch_and_merge")
    /\ \/ Continue
       \/ \E c \in QuantifyingCodes : Raise(QuantifyingException(c))
    /\ UNCHANGED <<files, fetched, readme, run, prev, argv, args, data,
                   series, xticklabels>>

\* A plausible slip: --skip-commit does not imply --skip-push.
ParsedNoImplication(cli) == cli

\* parse_arguments(): the namespace for a command line.
Parsed(cli) == [cli EXCEPT !.skip_push = cli.skip_commit \/ cli.skip_push]

ParseArguments ==
    /\ pc = "parse_arguments"
    /\ trace' = Append(trace, "parse_arguments")
    /\ \/ \E q \in Quarters, sc, sp, show \in BOOLEAN :
            LET cli == [quarter |-> q, skip_commit |-> sc, skip_push |-> sp,
                        show_plots |-> show]
            IN  /\ argv' = cli
                /\ args' = Parsed(cli)
                /\ Continue
       \/ \E c \in ArgparseCodes :
            /\ Raise(SystemExit(c))
            /\ UNCHANGED <<argv, args>>
    /\ UNCHANGED <<files, fetched, readme, run, prev, data, series,
                   xticklabels>>

\* A plausible slip: the existence test is left out and the file is read.
LoadedUnchecked(quarter) == fetched

\* load_data(args)
Loaded(quarter) ==
    IF InputPath(quarter) \in files THEN fetched ELSE EmptyFrame

\* data = load_data(args); if data.empty: return
LoadData ==
    /\ pc = "load_data"
    /\ trace' = Append(trace, "load_data")
    /\ data' = Loaded(args.quarter)
    /\ IF IsEmpty(data') THEN Return ELSE Continue
    /\ UNCHANGED <<files, fetched, readme, run, prev, argv, args, series,
                   xticklabels>>

\* The body of visualize_by_country and visualize_by_language up to
\* plt.savefig: look the sentinels up, strip the headers, aggregate, plot,
\* save.
SpanReport(kind, first, last, png) ==
    LET cols == StrippedColumns(data)
        agg  == SpanAggregate(data, first, last)
    IN  \/ /\ Index(cols, first) = 0 \/ Index(cols, last) = 0
           /\ Raise(ValueError)
           /\ UNCHANGED <<data, series, files, trace>>
        \/ /\ Index(cols, first) # 0 /\ Index(cols, last) # 0
           /\ data' = StripColumns(data)
           /\ series' = [series EXCEPT ![kind] = agg]
           /\ \/ /\ files' = files \cup {ImagePath(args.quarter, png)}
                 /\ trace' = Append(trace, png)
                 /\ Continue
              \/ \* sns.barplot given no category: whether it raises depends
                 \* on the seaborn release.
                 /\ agg = <<>>
                 /\ Raise(ValueError)
                 /\ UNCHANGED <<files, trace>>

\* A shared.update_readme call.
UpdateReadme(section, png) ==
    /\ trace' = Append(trace, section)
    /\ \/ /\ readme' = readme \cup {Entry(args.quarter, section, png)}
          /\ Continue
       \/ /\ \E c \in QuantifyingCodes : Raise(QuantifyingException(c))
          /\ UNCHANGED readme

VisualizeByCountry ==
    /\ pc = "visualize_by_country"
    /\ SpanReport("country", UnitedStates, Japan, CountryPng)
    /\ UNCHANGED <<fetched, readme, run, prev, argv, args, xticklabels>>

CountryUpdateReadme ==
    /\ pc = "country_update_readme"
    /\ UpdateReadme("Country Report", CountryPng)
    /\ UNCHANGED <<files, fetched, run, prev, argv, args, data, series,
                   xticklabels>>

VisualizeByLicenseType ==
    /\ pc = "visualize_by_license_type"
    /\ data' = StripColumns(data)
    /\ \/ /\ Index(data'.columns, LicenseType) = 0
          /\ Raise(KeyError)
          /\ UNCHANGED <<series, xticklabels, files, trace>>
       \/ /\ Index(data'.columns, LicenseType) # 0
          /\ series' = [series EXCEPT !.license = LicenseData(data')]
          /\ xticklabels' = TickLabels(series'.license)
          /\ \/ /\ files' = files \cup {ImagePath(args.quarter, LicenseTypePng)}
                /\ trace' = Append(trace, LicenseTypePng)
                /\ Continue
             \/ \* a repeated license type leaves fewer ticks than labels:
                \* whether set_xticklabels raises depends on the matplotlib
                \* release.
                /\ HasDuplicates([k \in 1..Len(series'.license) |->
                                     series'.license[k].name])
                /\ Raise(ValueError)
                /\ UNCHANGED <<files, trace>>
    /\ UNCHANGED <<fetched, readme, run, prev, argv, args>>

LicenseTypeUpdateReadme ==
    /\ pc = "license_type_update_readme"
    /\ UpdateReadme("License Type Report", LicenseTypePng)
    /\ UNCHANGED <<files, fetched, run, prev, argv, args, data, series,
                   xticklabels>>

VisualizeByLanguage ==
    /\ pc = "visualize_by_language"
    /\ SpanReport("language", English, Indonesian, LanguagePng)
    /\ UNCHANGED <<fetched, readme, run, prev, argv, args, xticklabels>>

LanguageUpdateReadme ==
    /\ pc = "language_update_readme"
    /\ UpdateReadme("Language Report", LanguagePng)
    /\ UNCHANGED <<files, fetched, run, prev, argv, args, data, series,
                   xticklabels>>

\* if not args.skip_commit: shared.add_and_commit(...)
AddAndCommit ==
    /\ pc = "add_and_commit"
    /\ \/ /\ ~args.skip_commit
          /\ trace' = Append(trace, "add_and_commit")
          /\ \/ Continue
             \/ \E c \in QuantifyingCodes : Raise(QuantifyingException(c))
       \/ /\ args.skip_commit
          /\ Continue
          /\ UNCHANGED trace
    /\ UNCHANGED <<files, fetched, readme, run, prev, argv, args, data,
                   series, xticklabels>>

\* if not args.skip_push: shared.push_changes(...); then main() returns
PushChanges ==
    /\ pc = "push_changes"
    /\ \/ /\ ~args.skip_push
          /\ trace' = Append(trace, "push_changes")
          /\ \/ Return
             \/ \E c \in QuantifyingCodes : Raise(QuantifyingException(c))
       \/ /\ args.skip_push
          /\ Return
          /\ UNCHANGED trace
    /\ UNCHANGED <<files, fetched, readme, run, prev, argv, args, data,
                   series, xticklabels>>

\* Ctrl-C while main() runs.
Interrupt ==
    /\ pc # "exit"
    /\ Raise(KeyboardInterrupt)
    /\ UNCHANGED <<files, fetched, readme, run, prev, argv, args, data,
                   series, xticklabels, trace>>

ReportPngs == {CountryPng, LicenseTypePng, LanguagePng}

\* The script is started again, on the same disk.
Rerun ==
    /\ pc = "exit"
    /\ run < MaxRuns
    /\ run' = run + 1
    /\ prev' = IF ReportPngs \subseteq {trace[i] : i \in 1..Len(trace)}
               THEN prev \cup {args.quarter} ELSE prev
    /\ pc' = "fetch_and_merge"
    /\ argv' = NoArgs
    /\ args' = NoArgs
    /\ data' = EmptyFrame
    /\ series' = NoSeries
    /\ xticklabels' = <<>>
    /\ trace' = <<>>
    /\ raised' = NoException
    /\ exit_code' = -1
    /\ UNCHANGED <<files, fetched, readme>>

Init ==
    /\ fetched \in FixtureFrames
    /\ \E present \in SUBSET Quarters :
          files = {InputPath(q) : q \in present}
    /\ readme = {}
    /\ run = 1
    /\ prev = {}
    /\ pc = "fetch_and_merge"
    /\ argv = NoArgs
    /\ args = NoArgs
    /\ data = EmptyFrame
    /\ series = NoSeries
    /\ xticklabels = <<>>
    /\ trace = <<>>
    /\ raised = NoException
    /\ exit_code = -1

Next ==
    \/ FetchAndMerge
    \/ ParseArguments
    \/ LoadData
    \/ VisualizeByCountry
    \/ CountryUpdateReadme
    \/ VisualizeByLicenseType
    \/ LicenseTypeUpdateReadme
    \/ VisualizeByLanguage
    \/ LanguageUpdateReadme
    \/ AddAndCommit
    \/ PushChanges
    \/ Interrupt
    \/ Rerun

Spec == Init /\ [][Next]_vars

\* The three report functions applied to frames of every arrangement.
InitReports ==
    /\ fetched \in ArrangedFrames \cup LabelledFrames \cup {ExampleFrame}
    /\ files = {InputPath("2024Q1")}
    /\ readme = {}
    /\ run = 1
    /\ prev = {}
    /\ pc \in {"visualize_by_country", "visualize_by_license_type",
               "visualize_by_language"}
    /\ argv = [NoArgs EXCEPT !.quarter = "2024Q1"]
    /\ args = Parsed(argv)
    /\ data = Loaded(args.quarter)
    /\ series = NoSeries
    /\ xticklabels = <<>>
    /\ trace = <<>>
    /\ raised = NoException
    /\ exit_code = -1

NextReports ==
    \/ VisualizeByCountry
    \/ VisualizeByLicenseType
    \/ VisualizeByLanguage

SpecReports == InitReports /\ [][NextReports]_vars

\* ------------------------------------------------------------- claims
Events == {trace[i] : i \in 1..Len(trace)}

\* The calls of a full run, in the order the documentation gives.
ReportCalls == <<"fetch_and_merge", "parse_arguments", "load_data",
                 "gcs_country_report.png", "Country Report",
                 "gcs_licensetype_report.png", "License Type Report",
                 "gcs_language_report.png", "Language Report">>
FullRun == ReportCalls \o <<"add_and_commit", "push_changes">>

IsPrefix(s, t) == Len(s) <= Len(t) /\ s = SubSeq(t, 1, Len(s))

\* The image files and entries of a quarter, spelled out.
ThreeImages(q) == {<<q, "3-report", "gcs_country_report.png">>,
                   <<q, "3-report", "gcs_licensetype_report.png">>,
                   <<q, "3-report", "gcs_language_report.png">>}
OutputFiles(q) == {f \in files : f[1] = q /\ f[2] = "3-report"}
Registered(q) == {e.section : e \in {x \in readme : x.quarter = q}}

\* C1: in every run the calls are made in the fixed order pull, parse
\* arguments, load data, country report, license type report, language
\* report, commit, push: what a run has done so far is always a beginning of
\* that list, with only commit or push possibly left out.
C1_FixedOrder ==
    \/ IsPrefix(trace, FullRun)
    \/ trace = ReportCalls \o <<"push_changes">>

C1_Witness == pc = "exit" /\ trace = FullRun /\ exit_code = 0

\* C2: once the reports are done, commit is called iff --skip-commit was not
\* given and push is called iff neither --skip-commit nor --skip-push was
\* given; no run calls push without having called commit.
C2_CommitPushFlags ==
    /\ pc = "push_changes" =>
          ("add_and_commit" \in Events <=> ~argv.skip_commit)
    /\ (pc = "exit" /\ raised = NoException /\ ~IsEmpty(data)) =>
          /\ "add_and_commit" \in Events <=> ~argv.skip_commit
          /\ "push_changes" \in Events <=>
                (~argv.skip_commit /\ ~argv.skip_push)
    /\ "push_changes" \in Events => "add_and_commit" \in Events

C2_Witness ==
    /\ pc = "exit" /\ raised = NoException /\ ~IsEmpty(data)
    /\ argv.skip_commit /\ ~argv.skip_push
    /\ "push_changes" \notin Events

\* C3: when the quarter's gcs_fetched.csv does not exist, load_data returns
\* the empty frame without raising and the run ends at once and normally
\* (exit code 0): no image of the quarter is written, no entry of the quarter
\* is registered, and neither commit nor push is called.
C3_MissingInput ==
    ("load_data" \in Events /\ InputPath(args.quarter) \notin files) =>
        /\ data = EmptyFrame
        /\ pc = "exit" /\ raised = NoException /\ exit_code = 0
        /\ trace = <<"fetch_and_merge", "parse_arguments", "load_data">>
        /\ OutputFiles(args.quarter) = {}
        /\ Registered(args.quarter) = {}

C3_Witness ==
    /\ "load_data" \in Events /\ InputPath(args.quarter) \notin files
    /\ pc = "exit" /\ exit_code = 0
    /\ fetched = ExampleFrame

Missing(df, name) == \A i \in 1..Len(df.columns) : strip(df.columns[i]) # name

\* C4: when the country report (resp. the language report) is called on a
\* frame whose stripped headers lack "United States" or "Japan" (resp.
\* "English" or "Indonesian"), the step ends main() with the lookup error
\* (unless Ctrl-C comes first), and writes no file and registers no entry.
C4_MissingSentinel ==
    [][ (\/ /\ pc = "visualize_by_country"
            /\ Missing(data, UnitedStates) \/ Missing(data, Japan)
         \/ /\ pc = "visualize_by_language"
            /\ Missing(data, English) \/ Missing(data, Indonesian))
        => /\ pc' = "exit"
           /\ raised' \in {ValueError, KeyboardInterrupt}
           /\ files' = files /\ readme' = readme /\ trace' = trace ]_vars

C4_Witness ==
    /\ pc = "exit" /\ raised = ValueError /\ exit_code = 1
    /\ Missing(data, Indonesian)
    /\ trace[Len(trace)] = "License Type Report"
    /\ ImagePath(args.quarter, LanguagePng) \notin files

\* C5: the exit code is fixed by the way main() ended: 0 on a normal return
\* (the early stop on empty data included), the exception's exit code on a
\* QuantifyingException, the carried code on a SystemExit, 130 on a
\* KeyboardInterrupt and 1 on any other exception; each run ends in exactly
\* one of these ways.
C5_ExitCode ==
    /\ pc # "exit" => exit_code = -1
    /\ pc = "exit" =>
          /\ raised.type \in {"none", "QuantifyingException", "SystemExit",
                              "KeyboardInterrupt", "ValueError", "KeyError"}
          /\ raised.type = "none" => exit_code = 0
          /\ raised.type = "QuantifyingException" => exit_code = raised.code
          /\ raised.type = "SystemExit" => exit_code = raised.code
          /\ raised.type = "KeyboardInterrupt" => exit_code = 130
          /\ raised.type \in {"ValueError", "KeyError"} => exit_code = 1

C5_Witness ==
    /\ pc = "exit" /\ raised = KeyboardInterrupt /\ exit_code = 130
    /\ "gcs_country_report.png" \in Events

\* The sum f[1] + ... + f[n].
RECURSIVE Total(_, _)
Total(f, n) == IF n = 0 THEN 0 ELSE f[n] + Total(f, n - 1)

Least(S) == CHOOSE x \in S : \A y \in S : x <= y
At(df, name) ==
    Least({i \in 1..Len(df.columns) : strip(df.columns[i]) = name})

\* The columns of the raw frame from the one named `first` to the one named
\* `last`, left to right, each with the sum of its cells over all rows.
ExpectedSpan(df, first, last) ==
    LET lo == At(df, first)
        hi == At(df, last)
    IN  [k \in 1..(IF hi >= lo THEN hi - lo + 1 ELSE 0) |->
            [name  |-> strip(df.columns[lo + k - 1]),
             value |-> Total([r \in 1..Len(df.rows) |->
                                 df.rows[r][lo + k - 1]], Len(df.rows))]]

DistinctNames(df) ==
    \A i, j \in 1..Len(df.columns) :
        strip(df.columns[i]) = strip(df.columns[j]) => i = j

\* C6: for every frame with both sentinels, the country (resp. language)
\* aggregate has exactly one entry per column of the span from "United
\* States" to "Japan" (resp. "English" to "Indonesian"), left to right, each
\* the sum of that column of the raw data, whatever whitespace surrounds the
\* raw headers.
C6_SpanSums ==
    /\ CountryPng \in Events =>
          series.country = ExpectedSpan(fetched, UnitedStates, Japan)
    /\ LanguagePng \in Events =>
          series.language = ExpectedSpan(fetched, English, Indonesian)

\* C6 for the frames whose headers stay distinct once stripped.
C6_SpanSumsDistinct == DistinctNames(fetched) => C6_SpanSums

C6_Witness ==
    /\ fetched = ExampleFrame
    /\ CountryPng \in Events
    /\ series.country = << [name |-> UnitedStates, value |-> 40],
                           [name |-> Japan, value |-> 25] >>

\* The sum of the raw cells of row r outside the LICENSE TYPE column.
RowTotal(df, r) ==
    LET key == At(df, LicenseType)
    IN  Total([j \in 1..Len(df.columns) |->
                  IF j = key THEN 0 ELSE df.rows[r][j]], Len(df.columns))

\* The sum, column by column, of the raw cells outside the LICENSE TYPE
\* column.
GrandTotal(df) ==
    LET key == At(df, LicenseType)
    IN  Total([j \in 1..Len(df.columns) |->
                  IF j = key THEN 0
                  ELSE Total([r \in 1..Len(df.rows) |-> df.rows[r][j]],
                             Len(df.rows))], Len(df.columns))

\* C7: in the license type report each row's total is the sum of the row's
\* cells outside the LICENSE TYPE column, so the totals add up to the sum of
\* all cells outside that column.
C7_LicenseTotals ==
    (pc # "visualize_by_license_type" /\ series.license # <<>>) =>
        /\ Len(series.license) = Len(fetched.rows)
        /\ \A r \in 1..Len(fetched.rows) :
              series.license[r].value = RowTotal(fetched, r)
        /\ Total([r \in 1..Len(series.license) |-> series.license[r].value],
                 Len(series.license)) = GrandTotal(fetched)

C7_Witness ==
    /\ fetched = ExampleFrame
    /\ LicenseTypePng \in Events
    /\ series.license = << [name |-> LabelList[1], value |-> 33],
                           [name |-> LabelList[3], value |-> 42] >>

\* C9: the license type chart gets one x-axis label per row, in row order:
\* "CC BY 2.5" where the row's license type contains "by/2.5", the license
\* type itself elsewhere.
C9_TickLabels ==
    (pc # "visualize_by_license_type" /\ series.license # <<>>) =>
        /\ Len(xticklabels) = Len(fetched.rows)
        /\ \A r \in 1..Len(fetched.rows) :
              LET label == fetched.rows[r][At(fetched, LicenseType)]
              IN  xticklabels[r] =
                    IF \E i \in 1..Len(label) :
                          /\ i + 5 <= Len(label)
                          /\ <<label[i], label[i + 1], label[i + 2],
                               label[i + 3], label[i + 4], label[i + 5]>>
                             = <<"b", "y", "/", "2", ".", "5">>
                    THEN <<"C", "C", " ", "B", "Y", " ", "2", ".", "5">>
                    ELSE label

C9_Witness ==
    /\ LicenseTypePng \in Events
    /\ Len(xticklabels) = 2
    /\ fetched.rows[1][1] = <<"/", "b", "y", "/", "2", ".", "5", "/">>
    /\ xticklabels[1] = CCBy25
    /\ fetched.rows[2][1] = <<"b", "y", "-", "s", "a", "/", "2", ".", "5">>
    /\ xticklabels[2] = fetched.rows[2][1]

\* C8: once a run has written the three reports of a quarter, the quarter's
\* image files are exactly gcs_country_report.png, gcs_licensetype_report.png
\* and gcs_language_report.png under <quarter>/3-report, during and after
\* every later run for that quarter: a re-run overwrites, it adds no file.
C8_RerunOverwrites ==
    \A q \in Quarters :
        (q \in prev \/ (args.quarter = q /\ LanguagePng \in Events)) =>
            OutputFiles(q) = ThreeImages(q)

C8_Witness ==
    /\ run = 2 /\ args.quarter \in prev
    /\ pc = "exit" /\ LanguagePng \in Events
    /\ OutputFiles(args.quarter) = ThreeImages(args.quarter)

PngOf(section) ==
    CASE section = "Country Report" -> "gcs_country_report.png"
      [] section = "License Type Report" -> "gcs_licensetype_report.png"
      [] section = "Language Report" -> "gcs_language_report.png"
Sections == {"Country Report", "License Type Report", "Language Report"}

\* C10: commit (and so push) is called only after all three reports wrote
\* their image and then registered it; a report's image is always written
\* before its entry is registered; and what a run wrote and registered stays
\* on disk however the run ends, with nothing committed or pushed when a
\* report failed.
C10_CommitAfterReports ==
    /\ ("add_and_commit" \in Events \/ "push_changes" \in Events) =>
          /\ IsPrefix(ReportCalls, trace)
          /\ ThreeImages(args.quarter) \subseteq files
          /\ Sections \subseteq Registered(args.quarter)
    /\ \A i \in 1..Len(trace) :
          trace[i] \in Sections => (i > 1 /\ trace[i - 1] = PngOf(trace[i]))
    /\ \A i \in 1..Len(trace) :
          /\ trace[i] \in ReportPngs =>
                <<args.quarter, "3-report", trace[i]>> \in files
          /\ (trace[i] \in Sections /\ i < Len(trace)) =>
                trace[i] \in Registered(args.quarter)
    /\ (pc = "exit" /\ ~IsPrefix(ReportCalls, trace)) =>
          ("add_and_commit" \notin Events /\ "push_changes" \notin Events)

C10_Witness ==
    /\ pc = "exit" /\ raised = ValueError
    /\ trace = SubSeq(ReportCalls, 1, 7)
    /\ "add_and_commit" \notin Events
    /\ <<args.quarter, "3-report", "gcs_country_report.png">> \in files
    /\ {"Country Report", "License Type Report"}
          \subseteq Registered(args.quarter)
    /\ run = 1

====
